---------------------------- MODULE Spec2Model ----------------------------
(***************************************************************************)
(* A model of icu4c/source/common/utrie3.cpp: the frozen UTrie3 code point *)
(* trie, its point lookup (utrie3_get), its range scan (utrie3_getRange),  *)
(* its serialized form (utrie3_openFromSerialized, utrie3_serialize,       *)
(* utrie3_clone) and the endianness swapper (utrie3_swap).                 *)
(*                                                                         *)
(* The bit geometry of the trie lives in utrie3_impl.h, which is not part  *)
(* of the source at hand.  The model keeps every relation between the      *)
(* geometry constants (block length = 1 << shift, masks = length - 1, the  *)
(* linear BMP index, the omitted index-1 entries) and scales the shifts    *)
(* down so that a whole code space can be enumerated:                      *)
(*                                                                         *)
(*     constant                        library      model                  *)
(*     UTRIE3_SHIFT_1                  14           2                      *)
(*     UTRIE3_SHIFT_2                  5            1                      *)
(*     UTRIE3_INDEX_SHIFT              2            1                      *)
(*     BMP limit (0x10000)             0x10000      8                      *)
(*     ASCII limit (0x80)              0x80         2                      *)
(*     supplementary index-1 entries   64           SuppEntries            *)
(*     MAX_UNICODE                     0x10ffff     8 + 4*SuppEntries - 1  *)
(*                                                                         *)
(* so that the model's code space has 2 omitted (BMP) index-1 entries and  *)
(* SuppEntries supplementary ones of 4 code points each, data blocks of 2  *)
(* code points and index-2 blocks of 2 entries.  Header layout, signature, *)
(* option masks and error codes keep their library values.                 *)
(***************************************************************************)
EXTENDS Integers, Sequences, FiniteSets, TLC

(***************************************************************************)
(* Bit geometry (utrie3_impl.h, scaled as described above).                *)
(***************************************************************************)
UTRIE3_SHIFT_1 == 2
UTRIE3_SHIFT_2 == 1
UTRIE3_INDEX_SHIFT == 1
BMP_LIMIT == 8
ASCII_LIMIT == 2
\* the number of supplementary index-1 entries of the model's code space
SuppEntries == 3

Pow2(n) == 2 ^ n
Shr(x, n) == x \div Pow2(n)
Shl(x, n) == x * Pow2(n)
\* x & (2^n - 1) and x & ~(2^n - 1) for a non-negative x
LowBits(x, n) == x % Pow2(n)
ClearLow(x, n) == x - (x % Pow2(n))

UTRIE3_SHIFT_1_2 == UTRIE3_SHIFT_1 - UTRIE3_SHIFT_2
UTRIE3_DATA_BLOCK_LENGTH == Pow2(UTRIE3_SHIFT_2)
UTRIE3_DATA_MASK == UTRIE3_DATA_BLOCK_LENGTH - 1
UTRIE3_INDEX_2_BLOCK_LENGTH == Pow2(UTRIE3_SHIFT_1_2)
UTRIE3_INDEX_2_MASK == UTRIE3_INDEX_2_BLOCK_LENGTH - 1
UTRIE3_CP_PER_INDEX_1_ENTRY == Pow2(UTRIE3_SHIFT_1)
MAX_UNICODE == BMP_LIMIT + SuppEntries * UTRIE3_CP_PER_INDEX_1_ENTRY - 1
UTRIE3_INDEX_2_BMP_LENGTH == Shr(BMP_LIMIT, UTRIE3_SHIFT_2)
UTRIE3_OMITTED_BMP_INDEX_1_LENGTH == Shr(BMP_LIMIT, UTRIE3_SHIFT_1)
UTRIE3_INDEX_1_OFFSET == UTRIE3_INDEX_2_BMP_LENGTH
UTRIE3_DATA_START_OFFSET == ASCII_LIMIT
BMP_MAX == BMP_LIMIT - 1
ASCII_MAX == ASCII_LIMIT - 1
U_SENTINEL == -1

\* UTrie3ValueBits
UTRIE3_16_VALUE_BITS == 0
UTRIE3_32_VALUE_BITS == 1

\* "no null block" markers: a 16-bit index-2 offset and a 20-bit data offset
UTRIE3_NO_INDEX2_NULL_OFFSET == 65535
UTRIE3_NO_DATA_NULL_OFFSET == 1048575

\* INT32_MIN and INT32_MAX, the ends of UChar32
INT32_MIN == (-2147483647) - 1
INT32_MAX == 2147483647

\* What a read outside the index and data arrays yields in the model.
OOB == -1

(***************************************************************************)
(* The frozen trie (struct UTrie3).  index and data are the arrays the     *)
(* pointers index, data16 / data32 address; data16 is the tail of the      *)
(* 16-bit storage that starts at index, so index[i] with i >= indexLength  *)
(* reads data16[i - indexLength].                                          *)
(***************************************************************************)
IndexAt(t, i) ==
    IF i >= 0 /\ i < t.indexLength THEN t.index[i + 1]
    ELSE IF t.valueBits = UTRIE3_16_VALUE_BITS
            /\ i >= t.indexLength /\ i < t.indexLength + t.dataLength
         THEN t.data[i - t.indexLength + 1]
         ELSE OOB

DataAt(t, i) ==
    IF i >= 0 /\ i < t.dataLength THEN t.data[i + 1] ELSE OOB

\* (uint32_t)c <= k for a 32-bit signed c and 0 <= k < 2^31
ULE(c, k) == c >= 0 /\ c <= k

\* _UTRIE3_INDEX_FROM_BMP: the linear BMP index holds data offsets as they are
UTRIE3_INDEX_FROM_BMP(t, c) ==
    IndexAt(t, Shr(c, UTRIE3_SHIFT_2)) + LowBits(c, UTRIE3_SHIFT_2)

\* _UTRIE3_INDEX_FROM_SUPP: index-1, then index-2, whose entries are shifted
SuppI1(c) ==
    (UTRIE3_INDEX_1_OFFSET - UTRIE3_OMITTED_BMP_INDEX_1_LENGTH) + Shr(c, UTRIE3_SHIFT_1)
SuppI2(t, c) ==
    IndexAt(t, SuppI1(c)) + LowBits(Shr(c, UTRIE3_SHIFT_2), UTRIE3_SHIFT_1_2)
UTRIE3_INDEX_FROM_SUPP(t, c) ==
    Shl(IndexAt(t, SuppI2(t, c)), UTRIE3_INDEX_SHIFT) + LowBits(c, UTRIE3_SHIFT_2)

\* the final read of utrie3_get: data32[dataIndex], or index[dataIndex]
ReadData(t, di) ==
    IF t.valueBits = UTRIE3_16_VALUE_BITS THEN IndexAt(t, di) ELSE DataAt(t, di)

(***************************************************************************)
(* utrie3_get, with the array cells it reads: reads is the set of          *)
(* <<array, position>> the call consults.                                  *)
(***************************************************************************)
GetHighTailMutant(t, c) == c > t.highStart
GetHighTail(t, c) == c >= t.highStart

GetOutOfRangeMutant(c) == c > MAX_UNICODE
GetOutOfRange(c) == ~ULE(c, MAX_UNICODE)

utrie3_getAcc(t, c) ==
    IF ULE(c, ASCII_MAX)
    THEN \* linear ASCII
         [value |-> DataAt(t, c), reads |-> {<<"data", c>>}]
    ELSE IF ULE(c, BMP_MAX)
    THEN LET di == UTRIE3_INDEX_FROM_BMP(t, c)
         IN  [value |-> ReadData(t, di),
              reads |-> {<<"index", Shr(c, UTRIE3_SHIFT_2)>>, <<"data", di>>}]
    ELSE IF GetOutOfRange(c)
    THEN [value |-> t.errorValue, reads |-> {}]
    ELSE IF GetHighTail(t, c)
    THEN [value |-> t.highValue, reads |-> {}]
    ELSE LET di == UTRIE3_INDEX_FROM_SUPP(t, c)
         IN  [value |-> ReadData(t, di),
              reads |-> {<<"index", SuppI1(c)>>, <<"index", SuppI2(t, c)>>,
                         <<"data", di>>}]

utrie3_get(t, c) == utrie3_getAcc(t, c).value


(***************************************************************************)
(* Well-formed tries.  The builder is outside utrie3.cpp; the model has a  *)
(* small one that lays a total function f on the code space out the way    *)
(* the reader expects it: linear ASCII data first, every other data block  *)
(* and index-2 block stored once and shared, the linear BMP index, the     *)
(* index-1 table up to highStart, and the null blocks.                     *)
(***************************************************************************)
CodePoints == 0 .. MAX_UNICODE
Values == 0 .. 1
ErrorValues == {2}
Granule == Pow2(UTRIE3_INDEX_SHIFT)

\* the functions of at most four runs: b[1], b[2] and b[3] are where the second,
\* the third and the fourth run start (MAX_UNICODE + 1: the run is empty)
BreakPoints == 1 .. (MAX_UNICODE + 1)
RunBreaks ==
    {b \in BreakPoints \X BreakPoints \X BreakPoints : b[1] <= b[2] /\ b[2] <= b[3]}
RunFunction(b, vs) ==
    [cp \in CodePoints |->
        IF cp < b[1] THEN vs[1]
        ELSE IF cp < b[2] THEN vs[2]
        ELSE IF cp < b[3] THEN vs[3] ELSE vs[4]]
Functions ==
    {RunFunction(b, vs) : b \in RunBreaks, vs \in Values \X Values \X Values \X Values}

Uniform(n, v) == [j \in 1 .. n |-> v]

\* the first offset, a multiple of step, at which blk lies in arr; -1 if none
FindIn(arr, blk, step) ==
    LET hits == {o \in 0 .. (Len(arr) - Len(blk)) :
                    /\ o % step = 0
                    /\ SubSeq(arr, o + 1, o + Len(blk)) = blk}
    IN  IF hits = {} THEN -1 ELSE CHOOSE o \in hits : \A p \in hits : o <= p

AddBlock(arr, blk, step) ==
    IF FindIn(arr, blk, step) >= 0 THEN arr ELSE arr \o blk

BuildHighStart(f) ==
    LET hv == f[MAX_UNICODE]
        ok == {h \in 0 .. (MAX_UNICODE + 1) :
                  /\ h % UTRIE3_CP_PER_INDEX_1_ENTRY = 0
                  /\ \A cp \in CodePoints : cp >= h => f[cp] = hv}
    IN  CHOOSE h \in ok : \A g \in ok : h <= g

\* the data block of slot k: the values of code points k*32 .. k*32+31
SlotBlock(f, k) ==
    [j \in 1 .. UTRIE3_DATA_BLOCK_LENGTH |-> f[k * UTRIE3_DATA_BLOCK_LENGTH + j - 1]]

RECURSIVE BuildData(_, _, _)
BuildData(f, k, nslots) ==
    IF k = 0 THEN <<>>
    ELSE LET sofar == BuildData(f, k - 1, nslots)
             blk == SlotBlock(f, k - 1)
         IN  IF (k - 1) * UTRIE3_DATA_BLOCK_LENGTH < ASCII_LIMIT
             THEN sofar \o blk
             ELSE AddBlock(sofar, blk, Granule)

\* the index-2 block of index-1 entry e, data offsets shifted by INDEX_SHIFT
I2Block(f, data, base, e) ==
    [j \in 1 .. UTRIE3_INDEX_2_BLOCK_LENGTH |->
        Shr(base + FindIn(data, SlotBlock(f, e * UTRIE3_INDEX_2_BLOCK_LENGTH + j - 1), Granule),
            UTRIE3_INDEX_SHIFT)]

RECURSIVE BuildI2(_, _, _, _)
BuildI2(f, data, base, e) ==
    IF e <= UTRIE3_OMITTED_BMP_INDEX_1_LENGTH THEN <<>>
    ELSE AddBlock(BuildI2(f, data, base, e - 1), I2Block(f, data, base, e - 1), 1)

Max(a, b) == IF a >= b THEN a ELSE b
Min(a, b) == IF a <= b THEN a ELSE b

BuildTrie(f, valueBits, iv, ev) ==
    LET highStart == BuildHighStart(f)
        sh == Shr(highStart, UTRIE3_SHIFT_1)
        nslots == Max(UTRIE3_INDEX_2_BMP_LENGTH, Shr(highStart, UTRIE3_SHIFT_2))
        data == BuildData(f, nslots, nslots)
        n1 == Max(0, sh - UTRIE3_OMITTED_BMP_INDEX_1_LENGTH)
        i2Base == UTRIE3_INDEX_1_OFFSET + n1
        rawLen == i2Base + Len(BuildI2(f, data, 0, sh))
        indexLength == rawLen + ((Granule - (rawLen % Granule)) % Granule)
        base == IF valueBits = UTRIE3_16_VALUE_BITS THEN indexLength ELSE 0
        i2Area == BuildI2(f, data, base, sh)
        bmp == [k \in 1 .. UTRIE3_INDEX_2_BMP_LENGTH |->
                   base + FindIn(data, SlotBlock(f, k - 1), Granule)]
        i1 == [e \in 1 .. n1 |->
                   i2Base + FindIn(i2Area,
                       I2Block(f, data, base, UTRIE3_OMITTED_BMP_INDEX_1_LENGTH + e - 1), 1)]
        pad == Uniform(indexLength - rawLen, UTRIE3_NO_INDEX2_NULL_OFFSET)
        nullAt == FindIn(data, Uniform(UTRIE3_DATA_BLOCK_LENGTH, iv), Granule)
        dataNullOffset == IF nullAt >= 0 THEN base + nullAt ELSE UTRIE3_NO_DATA_NULL_OFFSET
        i2NullAt == IF nullAt >= 0
                    THEN FindIn(i2Area, Uniform(UTRIE3_INDEX_2_BLOCK_LENGTH,
                                                Shr(dataNullOffset, UTRIE3_INDEX_SHIFT)), 1)
                    ELSE -1
    IN  [index |-> bmp \o i1 \o i2Area \o pad,
         data |-> data,
         valueBits |-> valueBits,
         indexLength |-> indexLength,
         dataLength |-> Len(data),
         index2NullOffset |-> IF i2NullAt >= 0 THEN i2Base + i2NullAt
                              ELSE UTRIE3_NO_INDEX2_NULL_OFFSET,
         dataNullOffset |-> dataNullOffset,
         highStart |-> highStart,
         shiftedHighStart |-> sh,
         highValue |-> f[MAX_UNICODE],
         errorValue |-> ev,
         initialValue |-> IF nullAt >= 0 THEN iv ELSE f[MAX_UNICODE]]

ValueBitsSet == {UTRIE3_16_VALUE_BITS, UTRIE3_32_VALUE_BITS}

Tries ==
    {BuildTrie(f, vb, iv, ev) :
        f \in Functions, vb \in ValueBitsSet, iv \in Values, ev \in ErrorValues}

(***************************************************************************)
(* The invariants of a well-formed trie, as the readers rely on them.      *)
(***************************************************************************)
DataBase(t) == IF t.valueBits = UTRIE3_16_VALUE_BITS THEN t.indexLength ELSE 0

\* a data block offset as the readers use it lies wholly inside the data
BlockInData(t, off) ==
    /\ off >= DataBase(t)
    /\ off + UTRIE3_DATA_BLOCK_LENGTH <= DataBase(t) + t.dataLength

WellFormed(t) ==
    /\ t.highStart % UTRIE3_CP_PER_INDEX_1_ENTRY = 0
    /\ t.highStart <= MAX_UNICODE + 1
    /\ t.shiftedHighStart * UTRIE3_CP_PER_INDEX_1_ENTRY = t.highStart
    /\ t.dataLength % UTRIE3_DATA_BLOCK_LENGTH = 0
    /\ t.dataLength >= UTRIE3_DATA_START_OFFSET
    /\ t.indexLength >= UTRIE3_INDEX_1_OFFSET
    /\ Len(t.index) = t.indexLength /\ Len(t.data) = t.dataLength
    \* linear ASCII: the BMP index addresses the head of the data
    /\ \A c \in 0 .. ASCII_MAX : UTRIE3_INDEX_FROM_BMP(t, c) = DataBase(t) + c
    \* every BMP index entry addresses a data block
    /\ \A k \in 0 .. (UTRIE3_INDEX_2_BMP_LENGTH - 1) : BlockInData(t, IndexAt(t, k))
    \* below highStart every index-1 entry addresses an index-2 block past the
    \* BMP index, whose entries address data blocks
    /\ \A e \in UTRIE3_OMITTED_BMP_INDEX_1_LENGTH .. (t.shiftedHighStart - 1) :
          LET i2Block == IndexAt(t, UTRIE3_INDEX_1_OFFSET
                                    - UTRIE3_OMITTED_BMP_INDEX_1_LENGTH + e)
          IN  /\ i2Block >= UTRIE3_INDEX_2_BMP_LENGTH
              /\ i2Block + UTRIE3_INDEX_2_BLOCK_LENGTH <= t.indexLength
              /\ \A j \in 0 .. (UTRIE3_INDEX_2_BLOCK_LENGTH - 1) :
                    BlockInData(t, Shl(IndexAt(t, i2Block + j), UTRIE3_INDEX_SHIFT))
    \* the data null block holds initialValue; without one, initialValue = highValue
    /\ IF t.dataNullOffset < DataBase(t) + t.dataLength
       THEN /\ BlockInData(t, t.dataNullOffset)
            /\ \A j \in 0 .. UTRIE3_DATA_MASK :
                  ReadData(t, t.dataNullOffset + j) = t.initialValue
       ELSE t.initialValue = t.highValue
    \* the index-2 null block addresses the data null block only
    /\ IF t.index2NullOffset < t.indexLength
       THEN /\ t.index2NullOffset >= UTRIE3_INDEX_2_BMP_LENGTH
            /\ t.index2NullOffset + UTRIE3_INDEX_2_BLOCK_LENGTH <= t.indexLength
            /\ \A j \in 0 .. (UTRIE3_INDEX_2_BLOCK_LENGTH - 1) :
                  Shl(IndexAt(t, t.index2NullOffset + j), UTRIE3_INDEX_SHIFT)
                      = t.dataNullOffset
       ELSE TRUE
    \* the stored BMP values from highStart on are highValue
    /\ \A c \in 0 .. BMP_MAX :
          c >= t.highStart =>
             ReadData(t, IF c <= ASCII_MAX THEN DataBase(t) + c
                         ELSE UTRIE3_INDEX_FROM_BMP(t, c)) = t.highValue


(***************************************************************************)
(* utrie3_getRange.  handleValue is a pure function of the value, or null. *)
(***************************************************************************)
Handlers == {"null", "merge"}

\* handleValue(context, value): "merge" maps the stored values 0 and 1 to 2, and
\* 2 to 3: it changes every value, merges runs, and is not idempotent
HandleValue(h, v) ==
    IF h = "merge" THEN (IF v < 2 THEN 2 ELSE 3)
    ELSE v

\* what get_range's caller sees of a stored value: transform(value)
Transform(h, v) == IF h = "null" THEN v ELSE HandleValue(h, v)

maybeHandleValueMutant(value, initialValue, nullValue, h) ==
    IF value = initialValue THEN initialValue
    ELSE IF h # "null" THEN HandleValue(h, value)
    ELSE value
maybeHandleValue(value, initialValue, nullValue, h) ==
    IF value = initialValue THEN nullValue
    ELSE IF h # "null" THEN HandleValue(h, value)
    ELSE value

VARIABLES
    trie,       \* the frozen trie the calls read
    start,      \* utrie3_getRange's start
    handler,    \* utrie3_getRange's handleValue
    gr,         \* utrie3_getRange's locals, its position and its results
    gq,         \* the last utrie3_get call: its code point, result and reads
    io          \* the serialized-form calls: buffers, error code, results

UNINIT == -2

GrEntry ==
    [pc |-> "entry", c |-> 0, value |-> UNINIT, haveValue |-> FALSE,
     prevI2Block |-> -1, prevBlock |-> -1, i2Block |-> -1, i2 |-> 0, di |-> 0,
     ret |-> UNINIT, pValue |-> UNINIT, iters |-> 0, path |-> {}]

NullValue(t, h) == IF h # "null" THEN HandleValue(h, t.initialValue) ELSE t.initialValue

\* lines 222-241: the two early returns and the loop's set-up
GetRangeEntry ==
    /\ gr.pc = "entry"
    /\ IF ~ULE(start, MAX_UNICODE)
       THEN gr' = [gr EXCEPT !.pc = "done", !.ret = U_SENTINEL]
       ELSE IF start >= trie.highStart
       THEN gr' = [gr EXCEPT !.pc = "done", !.ret = MAX_UNICODE,
                             !.pValue = IF handler # "null"
                                        THEN HandleValue(handler, trie.highValue)
                                        ELSE trie.highValue]
       ELSE gr' = [gr EXCEPT !.pc = "outer", !.c = start]
    /\ UNCHANGED <<trie, start, handler, gq, io>>

\* the do-while condition, line 325
AfterOuter(g) ==
    [g EXCEPT !.pc = IF g.c < trie.highStart THEN "outer" ELSE "finish",
              !.iters = g.iters + 1]

\* first value of the run, or a comparison with it (lines 264-272, 293-301, 307-315)
SameRun(g, v) == ~g.haveValue \/ v = g.value
TakeValue(g, v) ==
    IF g.haveValue THEN g
    ELSE [g EXCEPT !.value = v, !.pValue = v, !.haveValue = TRUE]
Return(g, end) == [g EXCEPT !.pc = "done", !.ret = end]
\* the shortcuts a call has taken, for the record
Via(g, tag) == [g EXCEPT !.path = g.path \cup {tag}]

I2SkipAllowedMutant(g, i2Block) == i2Block = g.prevI2Block
I2SkipAllowed(g, i2Block) ==
    i2Block = g.prevI2Block /\ (g.c - start) >= UTRIE3_CP_PER_INDEX_1_ENTRY

\* one pass of the do-while body up to the for loop, lines 245-278
OuterStep ==
    /\ gr.pc = "outer"
    /\ LET c == gr.c
           supp == c > BMP_MAX
           i2Block == IF supp THEN IndexAt(trie, SuppI1(c))
                      ELSE ClearLow(Shr(c, UTRIE3_SHIFT_2), UTRIE3_SHIFT_1_2)
       IN  IF supp /\ I2SkipAllowed(gr, i2Block)
           THEN gr' = AfterOuter([Via(gr, "i2skip") EXCEPT
                                     !.c = c + UTRIE3_CP_PER_INDEX_1_ENTRY,
                                     !.i2Block = i2Block])
           ELSE IF i2Block = trie.index2NullOffset
           THEN LET nullValue == NullValue(trie, handler)
                IN  IF ~SameRun(gr, nullValue)
                    THEN gr' = Return([gr EXCEPT !.i2Block = i2Block,
                                                 !.prevI2Block = i2Block], c - 1)
                    ELSE gr' = AfterOuter(
                            [TakeValue(Via(gr, "i2null"), nullValue) EXCEPT
                                !.i2Block = i2Block,
                                !.prevI2Block = i2Block,
                                !.prevBlock = trie.dataNullOffset,
                                !.c = ClearLow(c + UTRIE3_CP_PER_INDEX_1_ENTRY,
                                               UTRIE3_SHIFT_1)])
           ELSE gr' = [gr EXCEPT !.pc = "inner",
                                 !.i2Block = i2Block,
                                 !.prevI2Block = i2Block,
                                 !.i2 = LowBits(Shr(c, UTRIE3_SHIFT_2), UTRIE3_SHIFT_1_2)]
    /\ UNCHANGED <<trie, start, handler, gq, io>>

\* ++i2 and the for loop's condition, line 279
AfterInner(g) ==
    IF g.i2 + 1 < UTRIE3_INDEX_2_BLOCK_LENGTH
    THEN [g EXCEPT !.pc = "inner", !.i2 = g.i2 + 1, !.iters = g.iters + 1]
    ELSE AfterOuter([g EXCEPT !.i2 = g.i2 + 1])

NextBlockStartMutant(c) == ClearLow(c, UTRIE3_SHIFT_2)
\* (c + UTRIE3_DATA_BLOCK_LENGTH) & ~UTRIE3_DATA_MASK, line 302
NextBlockStart(c) == ClearLow(c + UTRIE3_DATA_BLOCK_LENGTH, UTRIE3_SHIFT_2)

BlockSkipAllowedMutant(g, block) == block = g.prevBlock
BlockSkipAllowed(g, block) ==
    block = g.prevBlock /\ (g.c - start) >= UTRIE3_DATA_BLOCK_LENGTH

BlockOffsetMutant(t, i2Block, i2) == IndexAt(t, i2Block + i2)
BlockOffset(t, i2Block, i2) ==
    IF i2Block >= UTRIE3_INDEX_2_BMP_LENGTH
    THEN Shl(IndexAt(t, i2Block + i2), UTRIE3_INDEX_SHIFT)
    ELSE IndexAt(t, i2Block + i2)

\* one pass of the for loop's body up to the while loop, lines 280-315
InnerStep ==
    /\ gr.pc = "inner"
    /\ LET c == gr.c
           block == BlockOffset(trie, gr.i2Block, gr.i2)
           nullValue == NullValue(trie, handler)
       IN  IF BlockSkipAllowed(gr, block)
           THEN gr' = AfterInner([Via(gr, "blockskip") EXCEPT
                                     !.c = c + UTRIE3_DATA_BLOCK_LENGTH])
           ELSE IF block = trie.dataNullOffset
           THEN IF ~SameRun(gr, nullValue)
                THEN gr' = Return([gr EXCEPT !.prevBlock = block], c - 1)
                ELSE gr' = AfterInner(
                        [TakeValue(Via(gr, "datanull"), nullValue) EXCEPT
                            !.prevBlock = block,
                            !.c = NextBlockStart(c)])
           ELSE LET di == block + LowBits(c, UTRIE3_SHIFT_2)
                    value2 == maybeHandleValue(ReadData(trie, di), trie.initialValue,
                                               nullValue, handler)
                IN  IF ~SameRun(gr, value2)
                    THEN gr' = Return([gr EXCEPT !.prevBlock = block, !.di = di], c - 1)
                    ELSE gr' = [TakeValue(gr, value2) EXCEPT
                                   !.pc = "scan", !.prevBlock = block, !.di = di]
    /\ UNCHANGED <<trie, start, handler, gq, io>>

\* one pass of the while loop, lines 316-322
ScanStep ==
    /\ gr.pc = "scan"
    /\ LET c == gr.c + 1
           di == gr.di + 1
       IN  IF LowBits(c, UTRIE3_SHIFT_2) = 0
           THEN gr' = AfterInner([gr EXCEPT !.c = c])
           ELSE IF maybeHandleValue(ReadData(trie, di), trie.initialValue,
                                    NullValue(trie, handler), handler) # gr.value
           THEN gr' = Return([gr EXCEPT !.c = c, !.di = di], c - 1)
           ELSE gr' = [gr EXCEPT !.c = c, !.di = di, !.iters = gr.iters + 1]
    /\ UNCHANGED <<trie, start, handler, gq, io>>

HighValueEndsRunMutant(t, h, value) == t.highValue # value
HighValueEndsRun(t, h, value) ==
    maybeHandleValue(t.highValue, t.initialValue, NullValue(t, h), h) # value

\* after the loop, lines 326-332
Finish ==
    /\ gr.pc = "finish"
    /\ gr' = [Via(gr, "finish") EXCEPT !.pc = "done",
                        !.ret = IF HighValueEndsRun(trie, handler, gr.value)
                                THEN gr.c - 1 ELSE MAX_UNICODE]
    /\ UNCHANGED <<trie, start, handler, gq, io>>

\* the caller's enumeration: the next call starts after the returned end
NextRange ==
    /\ gr.pc = "done"
    /\ gr.ret # U_SENTINEL /\ gr.ret < MAX_UNICODE
    /\ start' = gr.ret + 1
    /\ gr' = GrEntry
    /\ UNCHANGED <<trie, handler, gq, io>>

vars == <<trie, start, handler, gr, gq, io>>

GqIdle == [pc |-> "idle", cp |-> 0, value |-> UNINIT, reads |-> {}]
IoIdle == [pc |-> "idle"]

Starts == CodePoints \cup {-1, MAX_UNICODE + 1}

InitRange ==
    /\ trie \in Tries
    /\ start \in Starts
    /\ handler \in Handlers
    /\ gr = GrEntry
    /\ gq = GqIdle
    /\ io = IoIdle

NextRangeScan ==
    \/ GetRangeEntry
    \/ OuterStep
    \/ InnerStep
    \/ ScanStep
    \/ Finish
    \/ NextRange

SpecRange == InitRange /\ [][NextRangeScan]_vars


(***************************************************************************)
(* Properties of the range scan, under SpecRange.                          *)
(***************************************************************************)
RangeDone == gr.pc = "done" /\ start \in CodePoints

\* The tries the calls read are well-formed, and a call reads inside the arrays.
TriesWellFormed == WellFormed(trie)

\* C1: get_range(start) returns (end, value) with start <= end and
\* transform(value_of(cp)) = value for every cp in [start, end], whatever the
\* start and the transform; the next call of the enumeration starts at end + 1,
\* so the calls from 0 cut [0, MAX_UNICODE] into ranges that agree with value_of
\* in the BMP, in the supplementary range and above highStart.
C1_RangeValuesAgree ==
    RangeDone =>
        /\ gr.ret >= start /\ gr.ret <= MAX_UNICODE
        /\ \A cp \in start .. gr.ret :
              Transform(handler, utrie3_get(trie, cp)) = gr.pValue

\* a call from the BMP, through the supplementary range, into the high tail
C1_Witness ==
    /\ RangeDone
    /\ handler = "merge"
    /\ start > ASCII_MAX /\ start <= BMP_MAX
    /\ trie.highStart > BMP_LIMIT /\ trie.highStart <= MAX_UNICODE
    /\ gr.ret = MAX_UNICODE
    /\ "finish" \in gr.path

\* C2: the returned end is maximal: it is MAX_UNICODE or the transformed value
\* of end + 1 differs from the returned value; a scan that reaches highStart
\* ends at highStart - 1 exactly when transform(highValue) differs from the
\* value of the run.
C2_RangeMaximal ==
    RangeDone =>
        /\ gr.ret = MAX_UNICODE
           \/ Transform(handler, utrie3_get(trie, gr.ret + 1)) # gr.pValue
        /\ "finish" \in gr.path =>
              /\ gr.ret \in {trie.highStart - 1, MAX_UNICODE}
              /\ (gr.ret = trie.highStart - 1 /\ trie.highStart <= MAX_UNICODE)
                    <=> Transform(handler, trie.highValue) # gr.pValue

\* a scan that took the shared-block skips and stopped at highStart - 1
C2_Witness ==
    /\ RangeDone
    /\ {"i2skip", "blockskip", "finish"} \subseteq gr.path
    /\ handler = "null"
    /\ gr.ret = trie.highStart - 1
    /\ gr.ret < MAX_UNICODE

\* C9: every iteration of the scan's loops moves the cursor c forward, c never
\* passes highStart, and the call returns start <= end <= MAX_UNICODE (never the
\* sentinel) for a start in the code space; so the enumeration start := end + 1
\* moves forward with every call.
C9_Progress ==
    [][/\ gr'.iters > gr.iters => gr'.c > gr.c
       /\ (gr.pc \in {"outer", "inner", "scan"} /\ gr'.pc # "done") =>
             /\ gr'.c >= gr.c
             /\ gr'.c <= trie.highStart
             /\ gr'.pc \in {"outer", "inner", "scan", "finish"}
       /\ (gr'.pc = "done" /\ start \in CodePoints /\ gr.pc # "done") =>
             /\ gr'.ret # U_SENTINEL
             /\ start <= gr'.ret /\ gr'.ret <= MAX_UNICODE
       /\ (gr.pc = "done" /\ gr'.pc = "entry") =>
             start' > start /\ start' <= MAX_UNICODE
      ]_vars

\* an enumeration that started at 0 and has reached its last range after
\* several loop iterations
C9_Witness ==
    /\ RangeDone
    /\ start > BMP_MAX
    /\ gr.iters >= 3
    /\ {"datanull", "i2null"} \subseteq gr.path
    /\ gr.ret = MAX_UNICODE


(***************************************************************************)
(* Point lookups: a trie and calls of utrie3_get on it.                    *)
(***************************************************************************)
GetInputs ==
    CodePoints \cup {INT32_MIN, -MAX_UNICODE, -1, MAX_UNICODE + 1,
                     2 * MAX_UNICODE, INT32_MAX}

Get(c) ==
    /\ gq.pc = "idle"
    /\ gq' = [pc |-> "done", cp |-> c,
              value |-> utrie3_getAcc(trie, c).value,
              reads |-> utrie3_getAcc(trie, c).reads]
    /\ UNCHANGED <<trie, start, handler, gr, io>>

InitGet ==
    /\ trie \in Tries
    /\ start = 0
    /\ handler = "null"
    /\ gr = GrEntry
    /\ gq = GqIdle
    /\ io = IoIdle

NextGet == \E c \in GetInputs : Get(c)

SpecGet == InitGet /\ [][NextGet]_vars

\* a read of the call lies inside the arrays the trie owns
ReadInside(t, rd) ==
    IF rd[1] = "index" THEN rd[2] >= 0 /\ rd[2] < t.indexLength
    ELSE rd[2] >= 0 /\ rd[2] < DataBase(t) + t.dataLength

C4_Total ==
    gq.pc = "done" =>
        IF gq.cp < 0 \/ gq.cp > MAX_UNICODE
        THEN gq.value = trie.errorValue /\ gq.reads = {}
        ELSE /\ gq.value \in Values
             /\ \A rd \in gq.reads : ReadInside(trie, rd)

\* the most negative code point, on a trie whose highStart is 0
C4_Witness ==
    /\ gq.pc = "done"
    /\ gq.cp = INT32_MIN
    /\ trie.highStart = 0
    /\ gq.value = trie.errorValue


(***************************************************************************)
(* The serialized form.  An image is a sequence of bytes in the platform's *)
(* byte order, which the model takes to be little-endian:                  *)
(*     0  signature          u32      8  indexLength        u16            *)
(*     4  options            u32     10  shiftedDataLength  u16            *)
(*    16  highValue          u32     12  index2NullOffset   u16            *)
(*    20  errorValue         u32     14  shiftedHighStart   u16            *)
(*    24  index[indexLength] u16, then data[dataLength] u16 or u32         *)
(* options holds dataNullOffset in bits 31..12 and the value width in its  *)
(* low bits; it is kept as these two parts, 20 and 12 bits wide.           *)
(***************************************************************************)
HEADER_SIZE == 24
\* "Tri3", 0x54726933, as the bytes of a little-endian u32
UTRIE3_SIG_BYTES == <<51, 105, 114, 84>>
\* the low bits of options: the value width, then the bits that must be 0
UTRIE3_OPTIONS_VALUE_BITS_MASK == 15
UTRIE3_OPTIONS_RESERVED_MASK == 3840
OPTIONS_NULL_OFFSET_SHIFT == 12

NoTrie == [none |-> TRUE]
UNSET == -3

\* UErrorCode: U_FAILURE(code) is code > U_ZERO_ERROR, warnings are below it
ErrorCodes ==
    {"U_USING_DEFAULT_WARNING", "U_ZERO_ERROR", "U_ILLEGAL_ARGUMENT_ERROR",
     "U_INVALID_FORMAT_ERROR", "U_MEMORY_ALLOCATION_ERROR",
     "U_INDEX_OUTOFBOUNDS_ERROR", "U_BUFFER_OVERFLOW_ERROR"}
U_FAILURE(code) == code \notin {"U_USING_DEFAULT_WARNING", "U_ZERO_ERROR"}

\* a & b for 0 <= a, b
RECURSIVE BitAnd(_, _)
BitAnd(a, b) ==
    IF a = 0 \/ b = 0 THEN 0
    ELSE (a % 2) * (b % 2) + 2 * BitAnd(a \div 2, b \div 2)
AndValueBitsMask(x) == BitAnd(x, UTRIE3_OPTIONS_VALUE_BITS_MASK)
AndReservedMask(x) == BitAnd(x, UTRIE3_OPTIONS_RESERVED_MASK)

Bytes16(v) == <<v % 256, (v \div 256) % 256>>
Bytes32(v) == <<v % 256, (v \div 256) % 256, (v \div 65536) % 256, (v \div 16777216) % 256>>
Word16(b, off) == b[off + 1] + 256 * b[off + 2]
Word32(b, off) == b[off + 1] + 256 * b[off + 2] + 65536 * b[off + 3] + 16777216 * b[off + 4]
\* the two parts of an options word
OptionsLow(b, off) == b[off + 1] + 256 * (b[off + 2] % 16)
OptionsHigh(b, off) == (b[off + 2] \div 16) + 16 * b[off + 3] + 4096 * b[off + 4]
\* ((uint32_t)dataNullOffset << 12) | low, as bytes
OptionsBytes(dataNullOffset, low) ==
    LET d == dataNullOffset % Pow2(32 - OPTIONS_NULL_OFFSET_SHIFT)
    IN  <<low % 256, ((low \div 256) % 16) + 16 * (d % 16), (d \div 16) % 256, (d \div 4096) % 256>>

RECURSIVE Flatten(_)
Flatten(ss) == IF ss = <<>> THEN <<>> ELSE Head(ss) \o Flatten(Tail(ss))

ValueWidth(valueBits) == IF valueBits = UTRIE3_16_VALUE_BITS THEN 2 ELSE 4

\* lines 379-386 (and 72-77, 138-143, 524-531): the length of the image
SerializedLength(t) ==
    HEADER_SIZE + t.indexLength * 2 + t.dataLength * ValueWidth(t.valueBits)

\* lines 392-411: the bytes utrie3_serialize writes
SerializedBytes(t) ==
    UTRIE3_SIG_BYTES
    \o OptionsBytes(t.dataNullOffset, t.valueBits)
    \o Bytes16(t.indexLength)
    \o Bytes16(Shr(t.dataLength, UTRIE3_INDEX_SHIFT))
    \o Bytes16(t.index2NullOffset)
    \o Bytes16(t.shiftedHighStart)
    \o Bytes32(t.highValue)
    \o Bytes32(t.errorValue)
    \o Flatten([i \in 1 .. t.indexLength |-> Bytes16(t.index[i])])
    \o Flatten([i \in 1 .. t.dataLength |->
                   IF t.valueBits = UTRIE3_16_VALUE_BITS
                   THEN Bytes16(t.data[i]) ELSE Bytes32(t.data[i])])

\* what a call leaves in a destination buffer: its bytes, then the old ones
Overwrite(old, new) ==
    new \o (IF Len(old) > Len(new) THEN SubSeq(old, Len(new) + 1, Len(old)) ELSE <<>>)

SerializeStickyMutant(err) == FALSE
SerializeSticky(err) == U_FAILURE(err)

\* utrie3_serialize(trie, data, capacity, pErrorCode); dest is the buffer at
\* data (<<>> with hasData FALSE: a null pointer)
utrie3_serialize(t, dest, hasData, aligned, capacity, err) ==
    IF SerializeSticky(err)
    THEN [err |-> err, ret |-> 0, out |-> dest]
    ELSE IF t = NoTrie \/ capacity < 0 \/ (capacity > 0 /\ (~hasData \/ ~aligned))
    THEN [err |-> "U_ILLEGAL_ARGUMENT_ERROR", ret |-> 0, out |-> dest]
    ELSE IF capacity < SerializedLength(t)
    THEN [err |-> "U_BUFFER_OVERFLOW_ERROR", ret |-> SerializedLength(t), out |-> dest]
    ELSE [err |-> err, ret |-> SerializedLength(t),
          out |-> Overwrite(dest, SerializedBytes(t))]

\* lines 58-69: the lengths and offsets of the header at the head of img
HeaderTrie(img) ==
    [indexLength |-> Word16(img, 8),
     dataLength |-> Shl(Word16(img, 10), UTRIE3_INDEX_SHIFT),
     index2NullOffset |-> Word16(img, 12),
     dataNullOffset |-> OptionsHigh(img, 4),
     highStart |-> Shl(Word16(img, 14), UTRIE3_SHIFT_1),
     shiftedHighStart |-> Word16(img, 14),
     highValue |-> Word32(img, 16),
     errorValue |-> Word32(img, 20)]

OpenInitialValueMutant(t) ==
    IF t.dataNullOffset < t.dataLength THEN DataAt(t, t.dataNullOffset) ELSE t.highValue
\* lines 98-116: initialValue of the opened trie
OpenInitialValue(t) ==
    IF t.valueBits = UTRIE3_16_VALUE_BITS
    THEN IF t.dataNullOffset < t.indexLength + t.dataLength
         THEN IndexAt(t, t.dataNullOffset) ELSE t.highValue
    ELSE IF t.dataNullOffset < t.dataLength
         THEN DataAt(t, t.dataNullOffset) ELSE t.highValue

\* lines 89-116: the trie that views the arrays of img
ViewTrie(img, valueBits) ==
    LET h == HeaderTrie(img)
        dataAt == HEADER_SIZE + h.indexLength * 2
        t == [index |-> [i \in 1 .. h.indexLength |-> Word16(img, HEADER_SIZE + 2 * (i - 1))],
              data |-> [i \in 1 .. h.dataLength |->
                           IF valueBits = UTRIE3_16_VALUE_BITS
                           THEN Word16(img, dataAt + 2 * (i - 1))
                           ELSE Word32(img, dataAt + 4 * (i - 1))],
              valueBits |-> valueBits,
              indexLength |-> h.indexLength,
              dataLength |-> h.dataLength,
              index2NullOffset |-> h.index2NullOffset,
              dataNullOffset |-> h.dataNullOffset,
              highStart |-> h.highStart,
              shiftedHighStart |-> h.shiftedHighStart,
              highValue |-> h.highValue,
              errorValue |-> h.errorValue,
              initialValue |-> 0]
    IN  [t EXCEPT !.initialValue = OpenInitialValue(t)]

OpenSticky(err) == U_FAILURE(err)

OpenBadOptionsMutant(img, valueBits) ==
    valueBits # AndValueBitsMask(OptionsLow(img, 4))
\* lines 51-53: the value width and the reserved bits of options
OpenBadOptions(img, valueBits) ==
    \/ valueBits # AndValueBitsMask(OptionsLow(img, 4))
    \/ AndReservedMask(OptionsLow(img, 4)) # 0

\* lines 72-77: the actual length
OpenActualLength(img, valueBits) ==
    HEADER_SIZE + HeaderTrie(img).indexLength * 2
        + HeaderTrie(img).dataLength * ValueWidth(valueBits)

\* utrie3_openFromSerialized(valueBits, data, length, pActualLength, pErrorCode);
\* img is the memory at data, aligned whether data is 4-aligned, allocOk whether
\* uprv_malloc returns memory, actual what *pActualLength holds before the call
utrie3_openFromSerialized(valueBits, img, aligned, length, actual, allocOk, err) ==
    LET fail(code) == [err |-> code, trie |-> NoTrie, actual |-> actual, allocs |-> 0]
    IN  IF OpenSticky(err) THEN fail(err)
        ELSE IF length <= 0 \/ ~aligned
                \/ valueBits < 0 \/ UTRIE3_32_VALUE_BITS < valueBits
        THEN fail("U_ILLEGAL_ARGUMENT_ERROR")
        ELSE IF length < HEADER_SIZE
        THEN fail("U_INVALID_FORMAT_ERROR")
        ELSE IF SubSeq(img, 1, 4) # UTRIE3_SIG_BYTES
        THEN fail("U_INVALID_FORMAT_ERROR")
        ELSE IF OpenBadOptions(img, valueBits)
        THEN fail("U_INVALID_FORMAT_ERROR")
        ELSE IF length < OpenActualLength(img, valueBits)
        THEN fail("U_INVALID_FORMAT_ERROR")
        ELSE IF ~allocOk
        THEN fail("U_MEMORY_ALLOCATION_ERROR")
        ELSE [err |-> err, trie |-> ViewTrie(img, valueBits),
              actual |-> OpenActualLength(img, valueBits), allocs |-> 1]

CloneSticky(err) == U_FAILURE(err)

\* utrie3_clone(other, pErrorCode)
utrie3_clone(other, allocOk, err) ==
    IF CloneSticky(err) THEN [err |-> err, trie |-> NoTrie, allocs |-> 0]
    ELSE IF other = NoTrie
    THEN [err |-> "U_ILLEGAL_ARGUMENT_ERROR", trie |-> NoTrie, allocs |-> 0]
    ELSE IF ~allocOk
    THEN [err |-> "U_MEMORY_ALLOCATION_ERROR", trie |-> NoTrie, allocs |-> 0]
    ELSE [err |-> err, trie |-> other, allocs |-> 1]


(***************************************************************************)
(* utrie3_swap.  A UDataSwapper knows the byte order of its input and of   *)
(* its output: it reads a header field of the input in the platform's      *)
(* order, and copies an array unit by unit, reversing the bytes of every   *)
(* unit when the two orders differ.                                        *)
(***************************************************************************)
NoDs == [none |-> TRUE]
Swappers == [inIsBigEndian : BOOLEAN, outIsBigEndian : BOOLEAN]

Reverse(b) == [i \in 1 .. Len(b) |-> b[Len(b) + 1 - i]]
\* the n bytes of a field at off, least significant first
dsReadBytes(ds, b, off, n) ==
    IF ds.inIsBigEndian THEN Reverse(SubSeq(b, off + 1, off + n)) ELSE SubSeq(b, off + 1, off + n)
dsReadUInt16(ds, b, off) == Word16(dsReadBytes(ds, b, off, 2), 0)
\* ds->swapArray16 and ds->swapArray32: len bytes at off, in units of unit bytes
dsSwapArray(ds, b, off, len, unit) ==
    IF ds.inIsBigEndian = ds.outIsBigEndian
    THEN SubSeq(b, off + 1, off + len)
    ELSE [i \in 1 .. len |-> b[off + ((i - 1) \div unit) * unit + unit - ((i - 1) % unit)]]

SwapReadHeaderMutant(ds, b) ==
    [signature |-> dsReadBytes(ds, b, 0, 4),
     optionsLow |-> OptionsLow(dsReadBytes(ds, b, 4, 4), 0),
     indexLength |-> Word16(b, 8),
     shiftedDataLength |-> Word16(b, 10)]
\* lines 505-509: the header fields utrie3_swap reads through the swapper
SwapReadHeader(ds, b) ==
    [signature |-> dsReadBytes(ds, b, 0, 4),
     optionsLow |-> OptionsLow(dsReadBytes(ds, b, 4, 4), 0),
     indexLength |-> dsReadUInt16(ds, b, 8),
     shiftedDataLength |-> dsReadUInt16(ds, b, 10)]

\* lines 511-522
SwapInvalid(h) ==
    \/ h.signature # UTRIE3_SIG_BYTES
    \/ AndValueBitsMask(h.optionsLow) < 0
    \/ UTRIE3_32_VALUE_BITS < AndValueBitsMask(h.optionsLow)
    \/ AndReservedMask(h.optionsLow) # 0
    \/ h.indexLength < UTRIE3_INDEX_1_OFFSET
    \/ Shl(h.shiftedDataLength, UTRIE3_INDEX_SHIFT) < UTRIE3_DATA_START_OFFSET

\* lines 524-535
SwapSize(h) ==
    HEADER_SIZE + h.indexLength * 2
        + Shl(h.shiftedDataLength, UTRIE3_INDEX_SHIFT) * ValueWidth(AndValueBitsMask(h.optionsLow))

\* lines 547-565: the header, the index and the data
SwapBody(ds, b, h) ==
    LET dataLength == Shl(h.shiftedDataLength, UTRIE3_INDEX_SHIFT)
    IN  dsSwapArray(ds, b, 0, 8, 4)
        \o dsSwapArray(ds, b, 8, 8, 2)
        \o dsSwapArray(ds, b, 16, 8, 4)
        \o (IF AndValueBitsMask(h.optionsLow) = UTRIE3_16_VALUE_BITS
            THEN dsSwapArray(ds, b, HEADER_SIZE, (h.indexLength + dataLength) * 2, 2)
            ELSE dsSwapArray(ds, b, HEADER_SIZE, h.indexLength * 2, 2)
                 \o dsSwapArray(ds, b, HEADER_SIZE + h.indexLength * 2, dataLength * 4, 4))

SwapSticky(err) == U_FAILURE(err)

\* utrie3_swap(ds, inData, length, outData, pErrorCode); in is the memory at
\* inData, dest the memory at outData (in itself when swapping in place),
\* hasOut whether outData is not NULL
utrie3_swap(ds, in, length, dest, hasOut, err) ==
    IF SwapSticky(err)
    THEN [err |-> err, ret |-> 0, out |-> dest]
    ELSE IF ds = NoDs \/ (length >= 0 /\ ~hasOut)
    THEN [err |-> "U_ILLEGAL_ARGUMENT_ERROR", ret |-> 0, out |-> dest]
    ELSE IF length >= 0 /\ length < HEADER_SIZE
    THEN [err |-> "U_INDEX_OUTOFBOUNDS_ERROR", ret |-> 0, out |-> dest]
    ELSE IF SwapInvalid(SwapReadHeader(ds, in))
    THEN [err |-> "U_INVALID_FORMAT_ERROR", ret |-> 0, out |-> dest]
    ELSE IF length < 0
    THEN [err |-> err, ret |-> SwapSize(SwapReadHeader(ds, in)), out |-> dest]
    ELSE IF length < SwapSize(SwapReadHeader(ds, in))
    THEN [err |-> "U_INDEX_OUTOFBOUNDS_ERROR", ret |-> 0, out |-> dest]
    ELSE [err |-> err, ret |-> SwapSize(SwapReadHeader(ds, in)),
          out |-> Overwrite(dest, SwapBody(ds, in, SwapReadHeader(ds, in)))]


(***************************************************************************)
(* Sessions over the serialized form.  A session starts from a trie and an *)
(* error indicator; a call is one action.  The image handed to             *)
(* utrie3_openFromSerialized or utrie3_swap is the trie's image, possibly  *)
(* altered in one header field, or the buffer an earlier call filled.      *)
(***************************************************************************)
POISON == 170
Poison(n) == [i \in 1 .. n |-> POISON]
Prefix(b, n) == SubSeq(b, 1, n)
SetBytes(b, off, new) == [i \in 1 .. Len(b) |->
                            IF i > off /\ i <= off + Len(new) THEN new[i - off] ELSE b[i]]

ImageKinds ==
    {"same", "trailing", "badSignature", "lowBit4", "reservedBit", "otherWidth",
     "longIndex", "nullOffset"}
ImageVariant(kind, b) ==
    CASE kind = "same" -> b
      [] kind = "trailing" -> b \o <<0, 0, 0, 0>>
      [] kind = "badSignature" -> SetBytes(b, 0, <<b[1] + 1>>)
      [] kind = "lowBit4" -> SetBytes(b, 4, <<b[5] + 16>>)
      [] kind = "reservedBit" -> SetBytes(b, 5, <<b[6] + 1>>)
      [] kind = "otherWidth" -> SetBytes(b, 4, <<1 - b[5]>>)
      [] kind = "longIndex" -> SetBytes(b, 8, Bytes16(Word16(b, 8) + 2))
      [] kind = "nullOffset" -> SetBytes(b, 7, <<(b[8] + 1) % 256>>)

SerFunctions ==
    {RunFunction(<<b, MAX_UNICODE + 1, MAX_UNICODE + 1>>, <<vs[1], vs[2], vs[2], vs[2]>>) :
        b \in BreakPoints, vs \in Values \X Values}
SerTries ==
    {BuildTrie(f, vb, iv, ev) :
        f \in SerFunctions, vb \in ValueBitsSet, iv \in Values, ev \in ErrorValues}

EntryCodes == {"U_ZERO_ERROR", "U_USING_DEFAULT_WARNING", "U_BUFFER_OVERFLOW_ERROR"}

IoStart(e) ==
    [pc |-> "start", op |-> "none", err |-> e, errIn |-> e, ret |-> 0, res |-> NoTrie,
     args |-> <<>>, img |-> <<>>, buf |-> <<>>, out |-> <<>>, actual |-> UNSET,
     allocs |-> 0, first |-> <<>>]

\* utrie3_serialize(t, data, capacity, &err) on the session's trie or on NULL,
\* into a fresh buffer of capacity bytes
Serialize(t, capacity, hasData, aligned) ==
    /\ io.pc = "start"
    /\ LET dest == IF hasData /\ capacity > 0 THEN Poison(capacity) ELSE <<>>
           r == utrie3_serialize(t, dest, hasData, aligned, capacity, io.err)
       IN  io' = [io EXCEPT !.pc = "serialized", !.op = "serialize",
                            !.errIn = io.err, !.err = r.err, !.ret = r.ret,
                            !.args = [isNull |-> t = NoTrie, capacity |-> capacity,
                                      hasData |-> hasData, aligned |-> aligned],
                            !.buf = r.out]
    /\ UNCHANGED <<trie, start, handler, gr, gq>>

OpenCall(img, valueBits, aligned, length, allocOk) ==
    LET r == utrie3_openFromSerialized(valueBits, img, aligned, length, io.actual,
                                       allocOk, io.err)
    IN  io' = [io EXCEPT !.pc = "opened", !.op = "open",
                         !.errIn = io.err, !.err = r.err, !.res = r.trie,
                         !.args = [valueBits |-> valueBits, aligned |-> aligned,
                                   length |-> length],
                         !.img = img, !.actual = r.actual,
                         !.allocs = io.allocs + r.allocs,
                         !.first = [op |-> io.op, ret |-> io.ret, args |-> io.args]]

OpenLengths(img) ==
    {n \in {0, HEADER_SIZE - 1, Len(img) - 6, Len(img) - 4, Len(img)} : n <= Len(img)}
RequestedValueBits == {-1, UTRIE3_16_VALUE_BITS, UTRIE3_32_VALUE_BITS, UTRIE3_32_VALUE_BITS + 1}

\* utrie3_openFromSerialized on an image that comes with the session
OpenImage(img, valueBits, aligned, length, allocOk) ==
    /\ io.pc = "start"
    /\ OpenCall(img, valueBits, aligned, length, allocOk)
    /\ UNCHANGED <<trie, start, handler, gr, gq>>

\* utrie3_openFromSerialized on the bytes utrie3_serialize has just written
OpenSerialized(valueBits, aligned, length, allocOk) ==
    /\ io.pc = "serialized"
    /\ ~U_FAILURE(io.err)
    /\ OpenCall(io.buf, valueBits, aligned, length, allocOk)
    /\ UNCHANGED <<trie, start, handler, gr, gq>>

\* utrie3_serialize of the trie utrie3_openFromSerialized returned
Reserialize(extra) ==
    /\ io.pc = "opened"
    /\ io.res # NoTrie
    /\ LET capacity == SerializedLength(io.res) + extra
           r == utrie3_serialize(io.res, Poison(capacity), TRUE, TRUE, capacity, io.err)
       IN  io' = [io EXCEPT !.pc = "reserialized", !.op = "serialize",
                            !.errIn = io.err, !.err = r.err, !.ret = r.ret,
                            !.out = r.out,
                            !.first = [op |-> io.op, args |-> io.args]]
    /\ UNCHANGED <<trie, start, handler, gr, gq>>

\* utrie3_clone(other, &err) of the session's trie or of NULL
Clone(other, allocOk) ==
    /\ io.pc = "start"
    /\ LET r == utrie3_clone(other, allocOk, io.err)
       IN  io' = [io EXCEPT !.pc = "cloned", !.op = "clone",
                            !.errIn = io.err, !.err = r.err, !.res = r.trie,
                            !.args = [isNull |-> other = NoTrie],
                            !.allocs = io.allocs + r.allocs]
    /\ UNCHANGED <<trie, start, handler, gr, gq>>

SwapLengths(img) ==
    {n \in {-1, HEADER_SIZE - 1, Len(img) - 6, Len(img) - 4, Len(img)} : n <= Len(img)}
SwapKinds == {"same", "trailing", "badSignature", "lowBit4", "reservedBit"}

\* utrie3_swap of an image that comes with the session
Swap(img, ds, length, hasOut, inPlace) ==
    /\ io.pc = "start"
    /\ inPlace => hasOut
    /\ LET dest == IF inPlace THEN img ELSE IF hasOut THEN Poison(Len(img)) ELSE <<>>
           r == utrie3_swap(ds, img, length, dest, hasOut, io.err)
       IN  io' = [io EXCEPT !.pc = "swapped", !.op = "swap",
                            !.errIn = io.err, !.err = r.err, !.ret = r.ret,
                            !.args = [ds |-> ds, length |-> length, inPlace |-> inPlace,
                                      hasOut |-> hasOut],
                            !.img = img, !.buf = dest, !.out = r.out]
    /\ UNCHANGED <<trie, start, handler, gr, gq>>

SwapBackLengths == IF io.pc = "swapped" THEN {io.ret, io.args.length} ELSE {}

\* utrie3_swap, by the opposite swapper, of what the first call has written
SwapBack(length, inPlace) ==
    /\ io.pc = "swapped"
    /\ ~U_FAILURE(io.err)
    /\ io.args.length >= 0
    /\ LET ds == [inIsBigEndian |-> io.args.ds.outIsBigEndian,
                  outIsBigEndian |-> io.args.ds.inIsBigEndian]
           dest == IF inPlace THEN io.out ELSE Poison(Len(io.out))
           r == utrie3_swap(ds, io.out, length, dest, TRUE, io.err)
       IN  io' = [io EXCEPT !.pc = "swappedBack", !.op = "swap",
                            !.errIn = io.err, !.err = r.err, !.ret = r.ret,
                            !.args = [ds |-> ds, length |-> length, inPlace |-> inPlace,
                                      hasOut |-> TRUE],
                            !.buf = dest, !.out = r.out,
                            !.first = [op |-> io.op, ret |-> io.ret, args |-> io.args,
                                       out |-> io.out]]
    /\ UNCHANGED <<trie, start, handler, gr, gq>>

\* the inputs a session draws at its start
SessionImages(kinds) ==
    IF io.pc = "start" THEN {ImageVariant(kind, SerializedBytes(trie)) : kind \in kinds} ELSE {}
Capacities ==
    IF io.pc = "start"
    THEN {-1, 0, SerializedLength(trie) - 2, SerializedLength(trie), SerializedLength(trie) + 4}
    ELSE {}

InitSer ==
    /\ trie \in SerTries
    /\ start = 0
    /\ handler = "null"
    /\ gr = GrEntry
    /\ gq = GqIdle
    /\ io \in {IoStart(e) : e \in EntryCodes}

NextSer ==
    \/ \E t \in {trie, NoTrie}, hasData \in BOOLEAN, aligned \in BOOLEAN,
          capacity \in Capacities :
          Serialize(t, capacity, hasData, aligned)
    \/ \E img \in SessionImages(ImageKinds) :
          \E valueBits \in RequestedValueBits, aligned \in BOOLEAN,
             length \in OpenLengths(img), allocOk \in BOOLEAN :
             OpenImage(img, valueBits, aligned, length, allocOk)
    \/ \E valueBits \in RequestedValueBits, aligned \in BOOLEAN,
          length \in OpenLengths(io.buf), allocOk \in BOOLEAN :
          OpenSerialized(valueBits, aligned, length, allocOk)
    \/ \E extra \in {0, 4} : Reserialize(extra)
    \/ \E other \in {trie, NoTrie}, allocOk \in BOOLEAN : Clone(other, allocOk)
    \/ \E img \in SessionImages(SwapKinds) :
          \E ds \in Swappers \cup {NoDs}, length \in SwapLengths(img),
             hasOut \in BOOLEAN, inPlace \in BOOLEAN :
             Swap(img, ds, length, hasOut, inPlace)
    \/ \E length \in SwapBackLengths, inPlace \in BOOLEAN : SwapBack(length, inPlace)

SpecSer == InitSer /\ [][NextSer]_vars


\* the fields and the lookups in which two tries are compared
SameTrie(a, b) ==
    /\ a.valueBits = b.valueBits
    /\ a.indexLength = b.indexLength
    /\ a.dataLength = b.dataLength
    /\ a.highStart = b.highStart
    /\ a.highValue = b.highValue
    /\ a.errorValue = b.errorValue
    /\ a.index2NullOffset = b.index2NullOffset
    /\ a.dataNullOffset = b.dataNullOffset
    /\ a.initialValue = b.initialValue
    /\ \A cp \in GetInputs : utrie3_get(a, cp) = utrie3_get(b, cp)

\* utrie3_openFromSerialized has run on the bytes utrie3_serialize wrote
OpenedSerialized == io.pc = "opened" /\ io.first.op = "serialize"

\* C5: serializing a well-formed trie of either value width into a buffer
\* that is large enough writes n = header + 2 * indexLength + (2 or 4) *
\* dataLength bytes, and opening those n bytes (with memory to allocate)
\* yields a trie equal to the first in value width, indexLength, dataLength,
\* highStart, highValue, errorValue, index2NullOffset, dataNullOffset and
\* initialValue, and with the same value_of for every code point.
C5_RoundTrip ==
    OpenedSerialized =>
        /\ io.first.ret = HEADER_SIZE + 2 * trie.indexLength
                            + ValueWidth(trie.valueBits) * trie.dataLength
        /\ Len(io.img) >= io.first.ret
        /\ (/\ io.args.valueBits = trie.valueBits
            /\ io.args.aligned
            /\ io.args.length >= io.first.ret
            /\ io.err # "U_MEMORY_ALLOCATION_ERROR")
           => /\ io.res # NoTrie
              /\ io.err = io.errIn
              /\ io.actual = io.first.ret
              /\ SameTrie(io.res, trie)

C5_Witness ==
    /\ OpenedSerialized
    /\ io.res # NoTrie
    /\ io.args.length = io.first.ret
    /\ trie.valueBits = UTRIE3_16_VALUE_BITS
    /\ trie.dataNullOffset # UTRIE3_NO_DATA_NULL_OFFSET
    /\ trie.index2NullOffset # UTRIE3_NO_INDEX2_NULL_OFFSET
    /\ trie.initialValue # trie.highValue

C7_SwapInvolution ==
    io.pc = "swappedBack" =>
        /\ ~U_FAILURE(io.err)
        /\ io.ret = io.first.ret
        /\ io.ret = HEADER_SIZE + 2 * trie.indexLength
                      + ValueWidth(trie.valueBits) * trie.dataLength
        /\ Prefix(io.out, io.ret) = Prefix(io.img, io.ret)

C7_Witness ==
    /\ io.pc = "swappedBack"
    /\ trie.valueBits = UTRIE3_32_VALUE_BITS
    /\ io.img = SerializedBytes(trie)
    /\ io.first.args.ds = [inIsBigEndian |-> FALSE, outIsBigEndian |-> TRUE]
    /\ io.first.args.inPlace
    /\ io.args.inPlace
    /\ Prefix(io.first.out, io.ret) # Prefix(io.img, io.ret)
    /\ Prefix(io.out, io.ret) = Prefix(io.img, io.ret)

\* the destination of the call that has just returned, as it was before
DestBefore ==
    CASE io.op = "serialize" ->
            IF io.args.hasData /\ io.args.capacity > 0 THEN Poison(io.args.capacity) ELSE <<>>
      [] io.op = "swap" -> io.buf
      [] OTHER -> <<>>
DestAfter ==
    CASE io.op = "serialize" -> io.buf
      [] io.op = "swap" -> io.out
      [] OTHER -> <<>>

\* C8: utrie3_openFromSerialized, utrie3_clone, utrie3_serialize and
\* utrie3_swap, called with an error indicator that already holds a failure,
\* return NULL or 0, leave the indicator as it is, write nothing to the
\* destination or to the actual length, and allocate nothing.
C8_StickyFailure ==
    [][(U_FAILURE(io.err) /\ io'.pc # io.pc) =>
          /\ io'.err = io.err
          /\ io'.op \in {"serialize", "swap"} => io'.ret = 0
          /\ io'.op \in {"open", "clone"} => io'.res = NoTrie
          /\ DestAfter' = DestBefore'
          /\ io'.actual = io.actual
          /\ io'.allocs = io.allocs]_vars

C8_Witness ==
    /\ io.op = "swap"
    /\ U_FAILURE(io.errIn)
    /\ io.args.ds = [inIsBigEndian |-> FALSE, outIsBigEndian |-> TRUE]
    /\ io.args.length = Len(io.img)
    /\ io.img = SerializedBytes(trie)
    /\ io.args.inPlace
    /\ io.out = io.img
    /\ io.ret = 0

\* the conditions of utrie3_openFromSerialized, on the bytes of the image
OpenArgumentsOk == io.args.length > 0 /\ io.args.aligned /\ io.args.valueBits \in ValueBitsSet
OpenSizeNeeded ==
    HEADER_SIZE + 2 * Word16(io.img, 8)
        + ValueWidth(io.args.valueBits) * Shl(Word16(io.img, 10), UTRIE3_INDEX_SHIFT)
OpenFormatOk ==
    /\ io.args.length >= HEADER_SIZE
    /\ Prefix(io.img, 4) = UTRIE3_SIG_BYTES
    /\ AndValueBitsMask(OptionsLow(io.img, 4)) = io.args.valueBits
    /\ AndReservedMask(OptionsLow(io.img, 4)) = 0
    /\ io.args.length >= OpenSizeNeeded
OpenFailed(code) == io.err = code /\ io.res = NoTrie /\ io.actual = UNSET

\* C10: utrie3_openFromSerialized succeeds only if the length is at least the
\* header size, the signature is right, the value width of options is the
\* requested one, the reserved bits of options are zero and the length is at
\* least header + 2 * indexLength + (2 or 4) * dataLength; a violated one
\* gives U_INVALID_FORMAT_ERROR (U_ILLEGAL_ARGUMENT_ERROR for length <= 0,
\* misaligned data or an invalid requested width), NULL, and an actual
\* length that is not written.
C10_OpenValidates ==
    (io.pc = "opened" /\ ~U_FAILURE(io.errIn)) =>
        /\ io.res # NoTrie =>
              OpenArgumentsOk /\ OpenFormatOk /\ io.err = io.errIn /\ io.actual = OpenSizeNeeded
        /\ ~OpenArgumentsOk => OpenFailed("U_ILLEGAL_ARGUMENT_ERROR")
        /\ (OpenArgumentsOk /\ ~OpenFormatOk) => OpenFailed("U_INVALID_FORMAT_ERROR")
        /\ (OpenArgumentsOk /\ OpenFormatOk /\ io.res = NoTrie) =>
              OpenFailed("U_MEMORY_ALLOCATION_ERROR")

C10_Witness ==
    /\ io.pc = "opened"
    /\ ~U_FAILURE(io.errIn)
    /\ OpenArgumentsOk
    /\ io.args.length >= HEADER_SIZE
    /\ Prefix(io.img, 4) = UTRIE3_SIG_BYTES
    /\ AndValueBitsMask(OptionsLow(io.img, 4)) = io.args.valueBits
    /\ AndReservedMask(OptionsLow(io.img, 4)) = 0
    /\ io.args.length < OpenSizeNeeded
    /\ OpenFailed("U_INVALID_FORMAT_ERROR")


(***************************************************************************)
(* utrie3_internalU8PrevIndex.  The code point space is scaled, and so is  *)
(* UTF-8: a byte is a single byte, a trail byte with one payload bit, or   *)
(* the lead byte of a sequence of two, three or four bytes:                *)
(*     code points below ASCII_LIMIT        one byte                       *)
(*     ASCII_LIMIT .. 3                     L2(1) T                        *)
(*     4 .. BMP_LIMIT - 1                   L3(1) T T                      *)
(*     BMP_LIMIT .. MAX_UNICODE             L4(1..2) T T T                 *)
(* L3(0) and L4(0) start overlong forms only, as 0xe0 and 0xf0 do with a   *)
(* low first trail byte; L4(2) with a high first trail byte is above       *)
(* MAX_UNICODE, as 0xf4 is.                                                *)
(***************************************************************************)
U8_WINDOW == 7

U8Single == [k |-> "S", p |-> 0]
U8Bytes ==
    {U8Single}
    \cup [k : {"T"}, p : {0, 1}] \cup [k : {"L2"}, p : {1}]
    \cup [k : {"L3"}, p : {0, 1}] \cup [k : {"L4"}, p : {0, 1, 2}]
U8_IS_TRAIL(b) == b.k = "T"
U8_IS_LEAD(b) == b.k \in {"L2", "L3", "L4"}
\* the lead byte and the first trail byte of a three-byte form admit a code
\* point that needs three bytes
U8_IS_VALID_LEAD3_AND_T1(lead, t1) == 4 * lead.p + 2 * t1.p >= 4
\* the same for four bytes: a code point from BMP_LIMIT to MAX_UNICODE
U8_IS_VALID_LEAD4_AND_T1(lead, t1) ==
    /\ 8 * lead.p + 4 * t1.p >= BMP_LIMIT
    /\ 8 * lead.p + 4 * t1.p <= MAX_UNICODE

\* utf8_prevCharSafeBody(s, 0, &i, c, -1): c is the byte at s[i], which the
\* caller has read; the result is the code point, or a negative value, and
\* the index i the decoder leaves.  (s is 1-based here: the C s[j] is s[j + 1].)
utf8_prevCharSafeBody(s, i, c) ==
    LET fail == [c |-> U_SENTINEL, i |-> i]
    IN  IF ~(U8_IS_TRAIL(c) /\ i > 0) THEN fail
        ELSE LET b1 == s[i] IN
        IF U8_IS_LEAD(b1)
        THEN IF b1.k = "L2"
             THEN [c |-> 2 * b1.p + c.p, i |-> i - 1]
             ELSE IF (IF b1.k = "L3" THEN U8_IS_VALID_LEAD3_AND_T1(b1, c)
                                     ELSE U8_IS_VALID_LEAD4_AND_T1(b1, c))
             THEN [c |-> U_SENTINEL, i |-> i - 1]
             ELSE fail
        ELSE IF ~(U8_IS_TRAIL(b1) /\ i - 1 > 0) THEN fail
        ELSE LET b2 == s[i - 1] IN
        IF b2.k = "L3"
        THEN IF U8_IS_VALID_LEAD3_AND_T1(b2, b1)
             THEN [c |-> 4 * b2.p + 2 * b1.p + c.p, i |-> i - 2]
             ELSE fail
        ELSE IF b2.k = "L4"
        THEN IF U8_IS_VALID_LEAD4_AND_T1(b2, b1)
             THEN [c |-> U_SENTINEL, i |-> i - 2]
             ELSE fail
        ELSE IF ~(U8_IS_TRAIL(b2) /\ i - 2 > 0) THEN fail
        ELSE LET b3 == s[i - 2] IN
        IF b3.k = "L4" /\ U8_IS_VALID_LEAD4_AND_T1(b3, b2)
        THEN [c |-> 8 * b3.p + 4 * b2.p + 2 * b1.p + c.p, i |-> i - 3]
        ELSE fail

\* x | i for a multiple x of 8 and 0 <= i < 8
OrLow3(x, i) == x + i

\* lines 340-345: the bytes before src that the decoder may read
U8PrevLength(dist) == Min(dist, U8_WINDOW)

U8PrevBmpMutant(t, c) == c <= BMP_MAX /\ c < t.highStart
\* line 350: the code point is looked up in the linear BMP index
U8PrevBmp(t, c) == c <= BMP_MAX

\* utrie3_internalU8PrevIndex(trie, c, start, src): buf holds the bytes from
\* start up to src; the result, with the decoder's code point and index
utrie3_internalU8PrevIndex(t, c, buf) ==
    LET length == U8PrevLength(Len(buf))
        s == SubSeq(buf, Len(buf) - length + 1, Len(buf))
        r == utf8_prevCharSafeBody(s, length, c)
        i == length - r.i
        ret == IF r.c >= 0
               THEN IF U8PrevBmp(t, r.c)
                    THEN OrLow3(Shl(UTRIE3_INDEX_FROM_BMP(t, r.c), 3), i)
                    ELSE IF r.c >= t.highStart THEN OrLow3(-16, i)
                    ELSE OrLow3(Shl(UTRIE3_INDEX_FROM_SUPP(t, r.c), 3), i)
               ELSE OrLow3(-8, i)
    IN  [ret |-> ret, cp |-> r.c, remaining |-> r.i]


\* the bytes from start up to src: the three before src matter to the
\* decoder, single bytes stand before them
U8_READ_BACK == 3
U8Tails(dist) ==
    IF dist = 0 THEN {<<>>}
    ELSE IF dist = 1 THEN {<<a>> : a \in U8Bytes}
    ELSE IF dist = 2 THEN {<<a, b>> : a \in U8Bytes, b \in U8Bytes}
    ELSE {<<a, b, d>> : a \in U8Bytes, b \in U8Bytes, d \in U8Bytes}
U8Buffers(dist) ==
    {[j \in 1 .. (dist - Min(dist, U8_READ_BACK)) |-> U8Single] \o tail : tail \in U8Tails(dist)}
Distances == 0 .. (U8_WINDOW + 1)

U8Functions ==
    {RunFunction(<<b, MAX_UNICODE + 1, MAX_UNICODE + 1>>, <<0, 1, 1, 1>>) : b \in BreakPoints}
U8Tries ==
    {BuildTrie(f, UTRIE3_16_VALUE_BITS, 0, ev) : f \in U8Functions, ev \in ErrorValues}

U8Call(c, buf) ==
    [pc |-> "u8call", c |-> c, buf |-> buf, ret |-> 0, cp |-> U_SENTINEL, remaining |-> 0]

\* one call of utrie3_internalU8PrevIndex
U8Prev ==
    /\ io.pc = "u8call"
    /\ LET r == utrie3_internalU8PrevIndex(trie, io.c, io.buf)
       IN  io' = [io EXCEPT !.pc = "u8done", !.ret = r.ret, !.cp = r.cp,
                            !.remaining = r.remaining]
    /\ UNCHANGED <<trie, start, handler, gr, gq>>

InitU8 ==
    /\ trie \in U8Tries
    /\ start = 0
    /\ handler = "null"
    /\ gr = GrEntry
    /\ gq = GqIdle
    /\ io \in {U8Call(c, buf) : c \in U8Bytes, buf \in UNION {U8Buffers(d) : d \in Distances}}

NextU8 == U8Prev

SpecU8 == InitU8 /\ [][NextU8]_vars

\* the low three bits of the result, and what the claim calls bytesConsumed
U8Low3 == io.ret % 8
U8Consumed == Min(Len(io.buf), U8_WINDOW) - io.remaining
\* the result in its three forms
U8ResultForms ==
    /\ U8Low3 = U8Consumed
    /\ (io.cp >= 0 /\ io.cp <= BMP_MAX) =>
          io.ret >= 0 /\ io.ret = 8 * UTRIE3_INDEX_FROM_BMP(trie, io.cp) + U8Consumed
    /\ (io.cp > BMP_MAX /\ io.cp < trie.highStart) =>
          io.ret >= 0 /\ io.ret = 8 * UTRIE3_INDEX_FROM_SUPP(trie, io.cp) + U8Consumed
    /\ (io.cp > BMP_MAX /\ io.cp >= trie.highStart) => io.ret = U8Consumed - 16
    /\ io.cp < 0 => io.ret = U8Consumed - 8

\* C11, as the specification states it: the low three bits of the result
\* are bytesConsumed = min(src - start, 7) minus the index the decoder
\* leaves, bytesConsumed lies in [1, 7], and the result is (dataIndex << 3) |
\* bytesConsumed, -16 | bytesConsumed or -8 | bytesConsumed.
C11_AsStated ==
    io.pc = "u8done" => (U8ResultForms /\ U8Consumed >= 1 /\ U8Consumed <= U8_WINDOW)

\* C11: for every call with start <= src, the low three bits of the result
\* are bytesConsumed = min(src - start, 7) minus the index the decoder
\* leaves, the number of bytes read backward from src: it lies in [0, 3] and
\* not above src - start, and is 0 exactly when the decoder finds no lead
\* byte for the byte at src, which it does not count.  The result is
\* (dataIndex << 3) | bytesConsumed and not negative for a code point up to
\* 0xFFFF or below highStart, -16 | bytesConsumed for a code point above
\* 0xFFFF and at or above highStart, -8 | bytesConsumed on ill-formed input.
C11_U8Prev ==
    io.pc = "u8done" =>
        /\ U8ResultForms
        /\ U8Consumed >= 0 /\ U8Consumed <= U8_READ_BACK
        /\ U8Consumed <= Len(io.buf)
        /\ io.cp >= 0 => U8Consumed >= 1
        /\ U8Consumed >= 1 => U8_IS_LEAD(io.buf[Len(io.buf) + 1 - U8Consumed])

C11_Witness ==
    /\ io.pc = "u8done"
    /\ Len(io.buf) > U8_WINDOW
    /\ io.cp >= 0 /\ io.cp <= BMP_MAX /\ io.cp >= trie.highStart
    /\ trie.highStart > 0
    /\ U8Consumed = 2
    /\ io.ret >= 0

=============================================================================
